---- MODULE Spec2Model ----
(***************************************************************************)
(* The IPL dashboard script (src/python.py) as a state machine.            *)
(*                                                                         *)
(* One run of the script is one interaction: load_matches (cached), the    *)
(* sidebar widgets, the filters, the empty check, the metric cards, tab 1  *)
(* and tab 2.  Streamlit reruns the script on every widget change.         *)
(*                                                                         *)
(* Encoding of values.  A missing cell (NaN / NaT / None) is NaN.  Team    *)
(* names are the positive integers, numbered in ascending name order, and  *)
(* the string "No Result" is NoResult.  Dates are day numbers; a date cell *)
(* that does not parse is Unparseable.                                     *)
(***************************************************************************)
EXTENDS Integers, Sequences, FiniteSets

\* ---------------------------------------------------------------- values

NaN == -1
Unparseable == -2
NoResult == 0

\* head(10) of the win leaderboard
TopN == 10

\* ---------------------------------------------------------------- bounds

\* rows of a table of the main family
MaxRows == 2
\* rows of a table of the loader family
MaxLoadRows == 2
\* distinct winners of the largest table of the wide family, beyond TopN
MaxExtraTeams == 1
\* values a user picks in one multiselect
MaxSel == 2
\* last day a date-range bound can take
MaxDay == 2
\* days of one calendar year
DaysPerYear == 1

\* ---------------------------------------------------------------- helpers

Range(s) == {s[i] : i \in 1..Len(s)}

RECURSIVE SetToSortedSeq(_)
\* sorted(...) of a set of integers, ascending
SetToSortedSeq(S) ==
    IF S = {} THEN <<>>
    ELSE LET m == CHOOSE x \in S : \A y \in S : x <= y
         IN <<m>> \o SetToSortedSeq(S \ {m})

\* pandas comparisons: any comparison with NaT / NaN is False
Ge(a, b) == a # NaN /\ b # NaN /\ a >= b
Le(a, b) == a # NaN /\ b # NaN /\ a <= b
Gt(a, b) == a # NaN /\ b # NaN /\ a > b

\* Series.fillna(v)
fillna(x, v) == IF x = NaN THEN v ELSE x

\* pd.to_datetime(..., errors="coerce")
to_datetime(x) == IF x = Unparseable \/ x = NaN THEN NaN ELSE x

\* Series.dt.year: the year of a day, NaN for NaT
year(d) == IF d = NaN THEN NaN ELSE ((d - 1) \div DaysPerYear) + 1

\* ---------------------------------------------------------------- load_matches

\* mutant of match_id_of: np.arange(len(df)), the ids start at 0
match_id_from_zero(file, i) ==
    IF "match_id" \in file.columns THEN file.rows[i].match_id ELSE i - 1

\* "match_id" column: kept when the file has it, else np.arange(1, len(df) + 1)
match_id_of(file, i) ==
    IF "match_id" \in file.columns THEN file.rows[i].match_id ELSE i

\* "season" column: kept when the file has it, else the year of the date
season_of(file, i) ==
    IF "season" \in file.columns THEN file.rows[i].season
    ELSE year(to_datetime(file.rows[i].date))

\* mutant of result_type_of: the wicket margin is tested before the run margin
result_type_wickets_first(winner, win_by_runs, win_by_wickets) ==
    IF winner = NoResult THEN "No Result"
    ELSE IF fillna(win_by_wickets, 0) > 0 THEN "Won by Wickets"
    ELSE IF fillna(win_by_runs, 0) > 0 THEN "Won by Runs"
    ELSE "Other"

\* the nested np.where of the result_type feature
result_type_of(winner, win_by_runs, win_by_wickets) ==
    IF winner = NoResult THEN "No Result"
    ELSE IF fillna(win_by_runs, 0) > 0 THEN "Won by Runs"
    ELSE IF fillna(win_by_wickets, 0) > 0 THEN "Won by Wickets"
    ELSE "Other"

\* one row of the table load_matches returns
load_row(file, i) ==
    LET r == file.rows[i]
        w == fillna(r.winner, NoResult)
    IN [match_id       |-> match_id_of(file, i),
        date           |-> to_datetime(r.date),
        season         |-> season_of(file, i),
        team1          |-> r.team1,
        team2          |-> r.team2,
        winner         |-> w,
        venue          |-> r.venue,
        win_by_runs    |-> r.win_by_runs,
        win_by_wickets |-> r.win_by_wickets,
        result_type    |-> result_type_of(w, r.win_by_runs, r.win_by_wickets)]

load_matches(file) == [i \in 1..Len(file.rows) |-> load_row(file, i)]

\* ---------------------------------------------------------------- sidebar

\* sorted(matches["season"].dropna().unique().tolist())
seasons_of(m) == SetToSortedSeq({m[i].season : i \in 1..Len(m)} \ {NaN})

\* sorted(pd.unique(matches[["team1", "team2"]].values.ravel("K")))
teams_of(m) ==
    SetToSortedSeq({m[i].team1 : i \in 1..Len(m)} \cup {m[i].team2 : i \in 1..Len(m)})

\* matches["date"].min(): NaT is skipped, and NaT is the minimum of no date
min_date_of(m) ==
    LET D == {m[i].date : i \in 1..Len(m)} \ {NaN}
    IN IF D = {} THEN NaN ELSE CHOOSE d \in D : \A e \in D : d <= e

\* what a multiselect over the options can return
Selections(options) == {S \in SUBSET Range(options) : Cardinality(S) <= MaxSel}

\* what the date-range picker can return: a first and a last day
DateRanges == {dr \in (1..MaxDay) \X (1..MaxDay) : dr[1] <= dr[2]}

\* ---------------------------------------------------------------- filters

\* if season_sel: f = f[f["season"].isin(season_sel)]
season_filter(f, season_sel) ==
    IF season_sel # {}
    THEN SelectSeq(f, LAMBDA r : r.season \in season_sel)
    ELSE f

\* mutant of date_filter: the last day of the range is excluded
date_filter_exclusive_end(f, date_range) ==
    SelectSeq(f, LAMBDA r : Ge(r.date, date_range[1]) /\ Gt(date_range[2], r.date))

\* f = f[(f["date"] >= start) & (f["date"] <= end)]
date_filter(f, date_range) ==
    SelectSeq(f, LAMBDA r : Ge(r.date, date_range[1]) /\ Le(r.date, date_range[2]))

\* if team_sel: f = f[f["team1"].isin(team_sel) | f["team2"].isin(team_sel)]
team_filter(f, team_sel) ==
    IF team_sel # {}
    THEN SelectSeq(f, LAMBDA r : r.team1 \in team_sel \/ r.team2 \in team_sel)
    ELSE f

\* f = matches.copy(): a new table, the cached one is left as it is
copy(m) == m

\* mutant of apply_filters: the team filter is applied to a fresh copy of
\* `matches`, which discards the season and date filters when a team is selected
apply_filters_team_on_matches(m, season_sel, team_sel, date_range) ==
    IF team_sel # {}
    THEN team_filter(copy(m), team_sel)
    ELSE date_filter(season_filter(copy(m), season_sel), date_range)

\* the "Apply filters" block: season, then date, then team
apply_filters(m, season_sel, team_sel, date_range) ==
    team_filter(date_filter(season_filter(copy(m), season_sel), date_range), team_sel)

\* ---------------------------------------------------------------- aggregation

\* the rows of f whose winner is not "No Result"
won(f) == SelectSeq(f, LAMBDA r : r.winner # NoResult)

\* occurrences of the value k in the column col
Occurrences(col, k) == Cardinality({i \in 1..Len(col) : col[i] = k})

RECURSIVE CountOrders(_, _)
\* the orders value_counts may list the keys K in: descending by count, with
\* keys of equal count in an order pandas does not specify
CountOrders(K, col) ==
    IF K = {} THEN {<<>>}
    ELSE UNION {
           {<<[key |-> k, count |-> Occurrences(col, k)]>> \o rest :
                rest \in CountOrders(K \ {k}, col)} :
           k \in {x \in K : \A y \in K : Occurrences(col, x) >= Occurrences(col, y)}}

\* Series.value_counts(): every result the call may return
value_counts(col) == CountOrders(Range(col), col)

\* mutant of head: DataFrame.tail(n)
tail(s, n) == IF Len(s) <= n THEN s ELSE SubSeq(s, Len(s) - n + 1, Len(s))

\* DataFrame.head(n)
head(s, n) == IF Len(s) <= n THEN s ELSE SubSeq(s, 1, n)

winner_column(f) == [i \in 1..Len(f) |-> f[i].winner]
result_type_column(f) == [i \in 1..Len(f) |-> f[i].result_type]

\* Series.nunique(): distinct non-null values
nunique(col) == Cardinality(Range(col) \ {NaN})

\* N/A, the top winner of a view without wins
NA == -3

\* mutant of metric_cards: the top winner is read from the last entry of `wins`
metric_cards_last(f, columns, wins) ==
    [total_matches |-> Len(f),
     no_result     |-> Len(SelectSeq(f, LAMBDA r : r.winner = NoResult)),
     unique_venues |-> IF "venue" \in columns
                       THEN nunique([i \in 1..Len(f) |-> f[i].venue]) ELSE 0,
     top_team      |-> IF Len(wins) > 0 THEN wins[Len(wins)].key ELSE NA,
     top_team_wins |-> IF Len(wins) > 0 THEN wins[Len(wins)].count ELSE 0]

\* the metric cards, given the result `wins` of value_counts
metric_cards(f, columns, wins) ==
    [total_matches |-> Len(f),
     no_result     |-> Len(SelectSeq(f, LAMBDA r : r.winner = NoResult)),
     unique_venues |-> IF "venue" \in columns
                       THEN nunique([i \in 1..Len(f) |-> f[i].venue]) ELSE 0,
     top_team      |-> IF Len(wins) > 0 THEN wins[1].key ELSE NA,
     top_team_wins |-> IF Len(wins) > 0 THEN wins[1].count ELSE 0]

\* ["match_id"].count() of one group g of rows: its non-null match_id values
match_id_count(g) == Len(SelectSeq(g, LAMBDA r : r.match_id # NaN))

\* f.groupby("season")["match_id"].count(): one entry per non-null season, ascending
season_counts_of(f) ==
    LET keys == SetToSortedSeq({f[i].season : i \in 1..Len(f)} \ {NaN})
    IN [j \in 1..Len(keys) |->
          [season  |-> keys[j],
           matches |-> match_id_count(SelectSeq(f, LAMBDA r : r.season = keys[j]))]]

\* groupby(["season", "winner"]): the groups; a row with a null key is in none
win_matrix_groups(f) ==
    {<<f[i].season, f[i].winner>> :
        i \in {j \in 1..Len(f) : f[j].winner # NoResult /\ f[j].season # NaN}}

\* win_matrix.pivot(index="winner", columns="season", values="match_id").fillna(0)
pivot_of(f) ==
    LET G == win_matrix_groups(f)
        idx  == {g[2] : g \in G}
        cols == {g[1] : g \in G}
    IN [index   |-> idx,
        columns |-> cols,
        values  |-> [c \in idx \X cols |->
                       IF <<c[2], c[1]>> \in G
                       THEN match_id_count(
                              SelectSeq(f, LAMBDA r : r.winner = c[1] /\ r.season = c[2]))
                       ELSE 0]]

\* the scatter data: a copy of the won rows with the margins' nulls set to 0
scatter_of(f) ==
    LET w == won(f)
    IN [i \in 1..Len(w) |->
          [w[i] EXCEPT !.win_by_runs = fillna(@, 0), !.win_by_wickets = fillna(@, 0)]]

\* mutant of matches_after_scatter: without .copy() the two fillna assignments
\* write through to the rows of `matches` that won
matches_after_scatter_in_place(m, f) ==
    [i \in 1..Len(m) |->
        IF m[i].winner # NoResult
        THEN [m[i] EXCEPT !.win_by_runs = fillna(@, 0), !.win_by_wickets = fillna(@, 0)]
        ELSE m[i]]

\* what the scatter step leaves of the table `matches`: it writes to its copy s only
matches_after_scatter(m, f) == m

\* ---------------------------------------------------------------- the script

VARIABLES
    file,           \* data/matches.csv as it is on disk
    cached,         \* st.cache_data holds the result of load_matches
    cache,          \* the table st.cache_data holds
    cache_hit,      \* this run's load_matches() was answered from the cache
    matches,        \* the script's table `matches`
    pc,             \* where the run of the script is
    season_sel, team_sel, date_range,   \* what the sidebar widgets returned
    f,              \* the filtered view
    shown,          \* st.error / st.exception / st.warning elements of this run
    cards,          \* the metric cards
    season_counts,  \* tab 1, line chart data
    win_counts,     \* tab 1, bar chart data
    pivot,          \* tab 2, heatmap data
    s,              \* tab 2, scatter data
    result_counts,  \* tab 2, pie chart data
    computed        \* the aggregation steps this run has executed

vars == <<file, cached, cache, cache_hit, matches, pc, season_sel, team_sel,
          date_range, f, shown, cards, season_counts, win_counts, pivot, s,
          result_counts, computed>>

sel_vars == <<season_sel, team_sel, date_range>>
out_vars == <<cards, season_counts, win_counts, pivot, s, result_counts, computed>>

NoCards == [total_matches |-> 0, no_result |-> 0, unique_venues |-> 0,
            top_team |-> NA, top_team_wins |-> 0]
NoPivot == [index |-> {}, columns |-> {}, values |-> <<>>]

\* the names a run of the script starts with
FreshRun ==
    /\ matches = <<>>
    /\ season_sel = {} /\ team_sel = {} /\ date_range = <<1, 1>>
    /\ f = <<>>
    /\ shown = {}
    /\ cards = NoCards
    /\ season_counts = <<>> /\ win_counts = <<>>
    /\ pivot = NoPivot /\ s = <<>> /\ result_counts = <<>>
    /\ computed = {}

InitOf(Files) ==
    /\ file \in Files
    /\ cached = FALSE /\ cache = <<>> /\ cache_hit = FALSE
    /\ pc = "load"
    /\ FreshRun

\* matches = load_matches(), first call: read_csv and the clean-up succeed
LoadFresh ==
    /\ pc = "load" /\ ~cached /\ file.readable
    /\ cache' = load_matches(file)
    /\ cached' = TRUE
    /\ matches' = load_matches(file)
    /\ pc' = "widgets"
    /\ UNCHANGED <<file, cache_hit, sel_vars, f, shown, out_vars>>

\* matches = load_matches(), a later run: st.cache_data answers
LoadCached ==
    /\ pc = "load" /\ cached
    /\ matches' = cache
    /\ cache_hit' = TRUE
    /\ pc' = "widgets"
    /\ UNCHANGED <<file, cached, cache, sel_vars, f, shown, out_vars>>

\* mutant of LoadFailed: the except branch does not call st.stop()
LoadFailed_without_stop ==
    /\ pc = "load" /\ ~cached /\ ~file.readable
    /\ shown' = {"error", "exception"}
    /\ pc' = "widgets"
    /\ UNCHANGED <<file, cached, cache, cache_hit, matches, sel_vars, f, out_vars>>

\* load_matches() raises (no file, not a table, a required column missing):
\* except Exception: st.error, st.exception, st.stop()
LoadFailed ==
    /\ pc = "load" /\ ~cached /\ ~file.readable
    /\ shown' = {"error", "exception"}
    /\ pc' = "load_error"
    /\ UNCHANGED <<file, cached, cache, cache_hit, matches, sel_vars, f, out_vars>>

\* the sidebar: the three widgets return what the user has set
Widgets ==
    /\ pc = "widgets"
    /\ season_sel' \in Selections(seasons_of(matches))
    /\ team_sel' \in Selections(teams_of(matches))
    /\ date_range' \in DateRanges
    /\ pc' = "filter"
    /\ UNCHANGED <<file, cached, cache, cache_hit, matches, f, shown, out_vars>>

\* the sidebar of a table without any date: min_date is NaT, and st.date_input is
\* given NaT.date(); where the widget rejects that value the run ends with an
\* uncaught exception (Widgets covers the widget accepting it)
WidgetsRaise ==
    /\ pc = "widgets"
    /\ min_date_of(matches) = NaN
    /\ shown' = {"exception"}
    /\ pc' = "crashed"
    /\ UNCHANGED <<file, cached, cache, cache_hit, matches, sel_vars, f, out_vars>>

\* the "Apply filters" block
ApplyFilters ==
    /\ pc = "filter"
    /\ f' = apply_filters(matches, season_sel, team_sel, date_range)
    /\ pc' = "check"
    /\ UNCHANGED <<file, cached, cache, cache_hit, matches, sel_vars, shown, out_vars>>

\* if f.empty: st.warning(...); st.stop()
EmptyStop ==
    /\ pc = "check" /\ f = <<>>
    /\ shown' = {"warning"}
    /\ pc' = "stopped"
    /\ UNCHANGED <<file, cached, cache, cache_hit, matches, sel_vars, f, out_vars>>

\* mutant of MetricCards: the empty check does not call st.stop()
MetricCards_after_empty ==
    /\ pc = "check"
    /\ \E wins \in value_counts(winner_column(won(f))) :
          cards' = metric_cards(f, file.columns, wins)
    /\ computed' = computed \cup {"cards"}
    /\ pc' = "tab1"
    /\ UNCHANGED <<file, cached, cache, cache_hit, matches, sel_vars, f, shown,
                   season_counts, win_counts, pivot, s, result_counts>>

\* the metric cards
MetricCards ==
    /\ pc = "check" /\ f # <<>>
    /\ \E wins \in value_counts(winner_column(won(f))) :
          cards' = metric_cards(f, file.columns, wins)
    /\ computed' = computed \cup {"cards"}
    /\ pc' = "tab1"
    /\ UNCHANGED <<file, cached, cache, cache_hit, matches, sel_vars, f, shown,
                   season_counts, win_counts, pivot, s, result_counts>>

\* with tab1: matches per season, top 10 teams by wins
Tab1 ==
    /\ pc = "tab1"
    /\ season_counts' = season_counts_of(f)
    /\ \E vc \in value_counts(winner_column(won(f))) :
          win_counts' = head(vc, TopN)
    /\ computed' = computed \cup {"season_counts", "win_counts"}
    /\ pc' = "tab2"
    /\ UNCHANGED <<file, cached, cache, cache_hit, matches, sel_vars, f, shown,
                   cards, pivot, s, result_counts>>

\* with tab2: heatmap, scatter, pie; then the footer
Tab2 ==
    /\ pc = "tab2"
    /\ pivot' = pivot_of(f)
    /\ s' = scatter_of(f)
    /\ matches' = matches_after_scatter(matches, f)
    /\ result_counts' \in value_counts(result_type_column(f))
    /\ computed' = computed \cup {"pivot", "scatter", "result_counts"}
    /\ pc' = "done"
    /\ UNCHANGED <<file, cached, cache, cache_hit, sel_vars, f, shown,
                   cards, season_counts, win_counts>>

\* a widget changes (or the page is reloaded): the script runs again from the top
Rerun ==
    /\ pc \in {"done", "stopped", "load_error", "crashed"}
    /\ pc' = "load"
    /\ matches' = <<>>
    /\ season_sel' = {} /\ team_sel' = {} /\ date_range' = <<1, 1>>
    /\ f' = <<>>
    /\ shown' = {}
    /\ cards' = NoCards
    /\ season_counts' = <<>> /\ win_counts' = <<>>
    /\ pivot' = NoPivot /\ s' = <<>> /\ result_counts' = <<>>
    /\ computed' = {}
    /\ UNCHANGED <<file, cached, cache, cache_hit>>

Next ==
    \/ LoadFresh \/ LoadCached \/ LoadFailed
    \/ Widgets \/ WidgetsRaise
    \/ ApplyFilters \/ EmptyStop
    \/ MetricCards \/ Tab1 \/ Tab2
    \/ Rerun

\* ---------------------------------------------------------------- input files

Row(id, d, se, t1, t2, w, v, runs, wkts) ==
    [match_id |-> id, date |-> d, season |-> se, team1 |-> t1, team2 |-> t2,
     winner |-> w, venue |-> v, win_by_runs |-> runs, win_by_wickets |-> wkts]

OptionalColumns == {"match_id", "season", "venue"}

\* the row r of a file that has only the optional columns `columns`
Strip(r, columns) ==
    [r EXCEPT !.match_id = IF "match_id" \in columns THEN @ ELSE NaN,
              !.season   = IF "season" \in columns THEN @ ELSE NaN,
              !.venue    = IF "venue" \in columns THEN @ ELSE NaN]

\* a file read_csv cannot read (missing, not a table, a required column missing)
Unreadable == [readable |-> FALSE, columns |-> {}, rows |-> <<>>]

TablesOver(pool, n) == UNION {[1..k -> pool] : k \in 0..n}

\* the readable files with optional columns among `variants` and up to n rows of pool
FilesOver(pool, variants, n) ==
    {[readable |-> TRUE, columns |-> c,
      rows |-> [i \in 1..Len(t) |-> Strip(t[i], c)]] :
        c \in variants, t \in TablesOver(pool, n)}

\* main family: rows that differ in date, season, teams, winner and margins
Pool ==
    { Row(1,   1,           1,   1, 2, 1,   1,   1,   0),
      Row(1,   2,           2,   2, 3, 3,   2,   0,   1),
      Row(2,   Unparseable, 1,   1, 3, NaN, NaN, NaN, NaN),
      Row(NaN, 2,           NaN, 1, 2, 2,   1,   NaN, 1),
      Row(2,   1,           2,   1, 3, 3,   2,   1,   1),
      Row(3,   2,           1,   2, 3, 2,   1,   0,   0) }

Files == {Unreadable} \cup FilesOver(Pool, {OptionalColumns, {}}, MaxRows)

\* loader family: one row for every winner and margins, and tables that differ
\* in the match_id column
ResultPool ==
    { Row(1, 1, 1, 1, 2, w, 1, runs, wkts) :
        w \in {NaN, NoResult, 1, 2}, runs \in {NaN, 0, 1, 2}, wkts \in {NaN, 0, 1} }

IdPool == { Row(id, 1, 1, 1, 2, 1, 1, 1, 0) : id \in {NaN, 1, 2} }

LoadFiles ==
    {Unreadable}
        \cup FilesOver(ResultPool, {OptionalColumns}, 1)
        \cup FilesOver(IdPool, {OptionalColumns, {}}, MaxLoadRows)

\* wide family: n teams, team k winning (k + 1) \div 2 matches; the rows of the
\* teams come in descending name order
RECURSIVE WideRows(_, _)
WideRows(k, n) ==
    IF k = 0 THEN <<>>
    ELSE [i \in 1..((k + 1) \div 2) |-> Row(NaN, 1, 1, k, (k % n) + 1, k, 1, 1, 0)]
           \o WideRows(k - 1, n)

\* the wide tables end with a match without a winner, played a day later
WideFiles ==
    {Unreadable, [readable |-> TRUE, columns |-> {"season"}, rows |-> <<>>]}
        \cup {[readable |-> TRUE, columns |-> {"season"},
               rows |-> Append(WideRows(n, n), Row(NaN, 2, 1, 1, 2, NaN, NaN, NaN, NaN))] :
                n \in (TopN - 1)..(TopN + MaxExtraTeams)}

\* ---------------------------------------------------------------- specifications

Init == InitOf(Files)
Spec == Init /\ [][Next]_vars

InitLoad == InitOf(LoadFiles)
SpecLoad == InitLoad /\ [][Next]_vars

InitWide == InitOf(WideFiles)
SpecWide == InitWide /\ [][Next]_vars

\* ---------------------------------------------------------------- properties

\* the run is past load_matches(): `matches` is bound
Loaded == pc \notin {"load", "load_error"}

\* the run is past the "Apply filters" block: f is the filtered view
Filtered == pc \in {"check", "stopped", "tab1", "tab2", "done"}

\* the run is past the metric cards
CardsDone == pc \in {"tab1", "tab2", "done"}

\* the run is past tab 1
Tab1Done == pc \in {"tab2", "done"}

\* the teams that win a row of the view v, and the rows each wins
WinnersOf(v) == {v[i].winner : i \in 1..Len(v)} \ {NoResult}
WinsOf(v, t) == Cardinality({i \in 1..Len(v) : v[i].winner = t})

\* C1: the filtered view is exactly the rows of the full table, in table order,
\* whose season is selected (or no season is selected), one of whose teams is
\* selected (or no team is selected), and whose date is non-null and lies in
\* [start, end], both bounds included.
C1_FilterExact ==
    Filtered =>
        f = SelectSeq(matches, LAMBDA r :
                /\ (season_sel = {} \/ r.season \in season_sel)
                /\ (team_sel = {} \/ r.team1 \in team_sel \/ r.team2 \in team_sel)
                /\ r.date # NaN
                /\ date_range[1] <= r.date /\ r.date <= date_range[2])

\* C1 witness: with a season and a team selected, a row dated on the last day of
\* the range is kept and a row with a null date, of a selected season and team,
\* is dropped.
C1_Witness ==
    /\ pc = "check"
    /\ season_sel # {} /\ team_sel # {}
    /\ \E i \in 1..Len(f) : f[i].date = date_range[2]
    /\ \E i \in 1..Len(matches) :
          /\ matches[i].date = NaN
          /\ matches[i].season \in season_sel
          /\ matches[i].team1 \in team_sel

\* the result type the claim C2 gives a source row
ClaimedResultType(raw) ==
    LET w    == IF raw.winner = NaN THEN NoResult ELSE raw.winner
        runs == IF raw.win_by_runs = NaN THEN 0 ELSE raw.win_by_runs
        wkts == IF raw.win_by_wickets = NaN THEN 0 ELSE raw.win_by_wickets
    IN CASE w = NoResult -> "No Result"
         [] w # NoResult /\ runs > 0 -> "Won by Runs"
         [] w # NoResult /\ runs <= 0 /\ wkts > 0 -> "Won by Wickets"
         [] OTHER -> "Other"

\* C2: every row of the loaded table has the result type its source row's winner
\* and margins determine: "No Result" for a missing or "No Result" winner, else
\* "Won by Runs" for a positive run margin, else "Won by Wickets" for a positive
\* wicket margin, else "Other".
C2_ResultType ==
    Loaded =>
        /\ Len(matches) = Len(file.rows)
        /\ \A i \in 1..Len(matches) :
              /\ matches[i].result_type = ClaimedResultType(file.rows[i])
              /\ (matches[i].winner = NoResult) = (file.rows[i].winner \in {NaN, NoResult})

\* C2 witness: a loaded row with a real winner and both margins positive.
C2_Witness ==
    /\ pc = "widgets"
    /\ \E i \in 1..Len(matches) :
          /\ matches[i].winner # NoResult
          /\ matches[i].win_by_runs > 0 /\ matches[i].win_by_wickets > 0
          /\ matches[i].result_type = "Won by Runs"

\* every aggregation step of a run
AllSteps == {"cards", "season_counts", "win_counts", "pivot", "scatter", "result_counts"}

\* no aggregation has run: every output still has the value the run started with
NothingComputed ==
    /\ computed = {}
    /\ cards = NoCards
    /\ season_counts = <<>> /\ win_counts = <<>>
    /\ pivot = NoPivot /\ s = <<>> /\ result_counts = <<>>

\* C3: a run whose filtered view is empty shows the warning and stops at the
\* empty check, with no aggregation computed and none left to run; a run whose
\* view is not empty shows no warning and, once done, has computed them all.
C3_EmptyStops ==
    /\ (Filtered /\ f = <<>>) =>
          /\ pc \in {"check", "stopped"}
          /\ NothingComputed
          /\ ~ENABLED (MetricCards \/ Tab1 \/ Tab2)
    /\ pc = "stopped" => (f = <<>> /\ shown = {"warning"})
    /\ (Filtered /\ f # <<>>) => ("warning" \notin shown /\ pc # "stopped")
    /\ pc = "done" => (f # <<>> /\ computed = AllSteps)

\* C3 witness: a table with rows is filtered to nothing, and the run has stopped.
C3_Witness ==
    /\ pc = "stopped"
    /\ matches # <<>>
    /\ "warning" \in shown

\* C4: when load_matches fails the run shows the error and stops there, with no
\* widget, filter or aggregation step run or left to run; a file that loads,
\* even with zero rows, never ends in that state.
C4_LoadError ==
    /\ (~file.readable /\ pc # "load") =>
          /\ pc = "load_error"
          /\ "error" \in shown
          /\ matches = <<>> /\ f = <<>> /\ season_sel = {} /\ team_sel = {}
          /\ NothingComputed
          /\ ~ENABLED (Widgets \/ WidgetsRaise \/ ApplyFilters \/ EmptyStop
                         \/ MetricCards \/ Tab1 \/ Tab2)
    /\ file.readable => (pc # "load_error" /\ "error" \notin shown)

\* C4 witness: the run of an unreadable file has ended in the error state.
C4_Witness == pc = "load_error" /\ "error" \in shown /\ ~file.readable

\* C5 as stated: whether or not the source has a match_id column, the match_id
\* values of the loaded table (the non-null ones) are pairwise distinct, and
\* 1..N in row order when the column is absent.
C5_Original ==
    Loaded =>
        /\ \A i, j \in 1..Len(matches) :
              (i # j /\ matches[i].match_id # NaN) =>
                  matches[i].match_id # matches[j].match_id
        /\ "match_id" \notin file.columns =>
              \A i \in 1..Len(matches) : matches[i].match_id = i

\* C5 amended: when the source has no match_id column the values are 1..N in
\* source row order, hence pairwise distinct; when it has one, the values are
\* the source's, unchanged.
C5_MatchIdBackfill ==
    Loaded =>
        /\ Len(matches) = Len(file.rows)
        /\ "match_id" \notin file.columns =>
              /\ \A i \in 1..Len(matches) : matches[i].match_id = i
              /\ \A i, j \in 1..Len(matches) :
                    i # j => matches[i].match_id # matches[j].match_id
        /\ "match_id" \in file.columns =>
              \A i \in 1..Len(matches) : matches[i].match_id = file.rows[i].match_id

\* C5 witness: a file of two rows without a match_id column has been loaded.
C5_Witness ==
    /\ pc = "widgets"
    /\ "match_id" \notin file.columns
    /\ Len(matches) >= 2
    /\ matches[2].match_id = 2

\* C9: the view the program computes (season, then date, then team) is the view
\* every one of the six orders of the three filters gives.
C9_Commutative ==
    Filtered =>
        /\ f = team_filter(date_filter(season_filter(matches, season_sel), date_range), team_sel)
        /\ f = date_filter(team_filter(season_filter(matches, season_sel), team_sel), date_range)
        /\ f = team_filter(season_filter(date_filter(matches, date_range), season_sel), team_sel)
        /\ f = season_filter(team_filter(date_filter(matches, date_range), team_sel), season_sel)
        /\ f = date_filter(season_filter(team_filter(matches, team_sel), season_sel), date_range)
        /\ f = season_filter(date_filter(team_filter(matches, team_sel), date_range), season_sel)

\* C9 witness: each of the three filters alone drops a row of the table.
C9_Witness ==
    /\ pc = "check"
    /\ Len(season_filter(matches, season_sel)) < Len(matches)
    /\ Len(team_filter(matches, team_sel)) < Len(matches)
    /\ Len(date_filter(matches, date_range)) < Len(matches)
    /\ f # <<>>

\* C10: in every run, also after earlier runs, the cached table and the script's
\* table are the table load_matches produced, and the view is the one this run's
\* selections give of that table.
C10_TableImmutable ==
    /\ cached => cache = load_matches(file)
    /\ Loaded => matches = load_matches(file)
    /\ Filtered => f = apply_filters(load_matches(file), season_sel, team_sel, date_range)

\* C10 witness: a run answered from the cache is done, and its scatter step has
\* replaced a null margin in its copy.
C10_Witness ==
    /\ pc = "done" /\ cache_hit
    /\ \E i \in 1..Len(f) : f[i].winner # NoResult /\ f[i].win_by_runs = NaN
    /\ \E i \in 1..Len(s) : s[i].win_by_runs = 0 /\ s[i].match_id = NaN

\* C6 as stated: the top winner is a winner of the view with the most wins,
\* shown with that count, the smallest in name order of those with the most
\* wins; N/A with 0 wins when the view has no winner.
C6_Original ==
    CardsDone =>
        LET W == WinnersOf(f)
        IN IF W = {}
           THEN cards.top_team = NA /\ cards.top_team_wins = 0
           ELSE /\ cards.top_team \in W
                /\ cards.top_team_wins = WinsOf(f, cards.top_team)
                /\ \A t \in W : WinsOf(f, t) <= cards.top_team_wins
                /\ \A t \in W :
                      WinsOf(f, t) = cards.top_team_wins => cards.top_team <= t

\* C6 amended: the top winner is a winner of the view, other than "No Result",
\* that no winner of the view has more wins than, shown with its own count;
\* among several with the most wins it is one of them, not determined by name
\* order; N/A with 0 wins when the view has no winner.
C6_TopWinner ==
    CardsDone =>
        LET W == WinnersOf(f)
        IN IF W = {}
           THEN cards.top_team = NA /\ cards.top_team_wins = 0
           ELSE /\ cards.top_team \in W
                /\ cards.top_team_wins = WinsOf(f, cards.top_team)
                /\ \A t \in W : WinsOf(f, t) <= cards.top_team_wins

\* C6 witness: the cards of a view in which two teams share the most wins and
\* other teams have fewer.
C6_Witness ==
    /\ pc = "tab1"
    /\ \E t \in WinnersOf(f) :
          t # cards.top_team /\ WinsOf(f, t) = cards.top_team_wins
    /\ \E t \in WinnersOf(f) : WinsOf(f, t) < cards.top_team_wins

\* the number of entries of the leaderboard of the view v
BoardLen(v) ==
    IF Cardinality(WinnersOf(v)) <= TopN THEN Cardinality(WinnersOf(v)) ELSE TopN

\* the teams the leaderboard lists
Listed == {win_counts[i].key : i \in 1..Len(win_counts)}

\* C7 as stated: the leaderboard has no "No Result" entry, gives each listed
\* team its number of wins in the view, is ordered by wins descending and by
\* name ascending among equal wins, and is the first min(10, winners) entries of
\* that ordering of all winners.
C7_Original ==
    Tab1Done =>
        /\ Len(win_counts) = BoardLen(f)
        /\ \A i \in 1..Len(win_counts) :
              /\ win_counts[i].key \in WinnersOf(f)
              /\ win_counts[i].count = WinsOf(f, win_counts[i].key)
        /\ \A i, j \in 1..Len(win_counts) :
              i < j =>
                \/ win_counts[i].count > win_counts[j].count
                \/ /\ win_counts[i].count = win_counts[j].count
                   /\ win_counts[i].key < win_counts[j].key
        /\ \A t \in WinnersOf(f) \ Listed :
              \A i \in 1..Len(win_counts) :
                \/ win_counts[i].count > WinsOf(f, t)
                \/ win_counts[i].count = WinsOf(f, t) /\ win_counts[i].key < t

\* C7 amended: the leaderboard has no "No Result" entry, lists min(10, winners)
\* different teams, gives each its number of wins in the view, is in
\* non-increasing order of wins (teams of equal wins in an order not determined
\* by name), and no team left out has more wins than a listed one.
C7_Leaderboard ==
    Tab1Done =>
        /\ Len(win_counts) = BoardLen(f)
        /\ \A i \in 1..Len(win_counts) :
              /\ win_counts[i].key \in WinnersOf(f)
              /\ win_counts[i].count = WinsOf(f, win_counts[i].key)
        /\ \A i, j \in 1..Len(win_counts) :
              i < j =>
                /\ win_counts[i].count >= win_counts[j].count
                /\ win_counts[i].key # win_counts[j].key
        /\ \A t \in WinnersOf(f) \ Listed :
              \A i \in 1..Len(win_counts) : win_counts[i].count >= WinsOf(f, t)

\* C7 witness: a view with more than ten winners and a match without a winner;
\* the leaderboard is cut to ten.
C7_Witness ==
    /\ pc = "tab2"
    /\ Cardinality(WinnersOf(f)) > TopN
    /\ Len(win_counts) = TopN
    /\ \E i \in 1..Len(f) : f[i].winner = NoResult

\* the non-null seasons in which a row of the view v has a winner
WinSeasonsOf(v) ==
    {v[i].season : i \in {j \in 1..Len(v) : v[j].winner # NoResult}} \ {NaN}

\* C8 as stated: the win matrix has a cell for every winner of the view and
\* every season with a win in the view, and the cell holds the number of rows of
\* the view with that winner and that season (0 when there is none).
C8_Original ==
    pc = "done" =>
        \A t \in WinnersOf(f) : \A se \in WinSeasonsOf(f) :
            /\ <<t, se>> \in DOMAIN pivot.values
            /\ pivot.values[<<t, se>>] =
                 Cardinality({i \in 1..Len(f) : f[i].winner = t /\ f[i].season = se})

====
